---- MODULE Spec2Model ----
(***************************************************************************)
(* A model of pagerank.py: the transition model, the random-surfer         *)
(* sampler (sample_pagerank) and the fixed-point solver                    *)
(* (iterate_pagerank).                                                     *)
(*                                                                         *)
(* Numbers.  The program computes with Python floats.  The model computes  *)
(* with exact rationals <<numerator, denominator>> in lowest terms with a  *)
(* positive denominator, so "x = 1" below is real-number equality; the     *)
(* rounding of IEEE doubles is not represented.  Damping factors are       *)
(* drawn from {0, 1/4, 1/2, 1} and corpora have at most three pages, which *)
(* keeps every numerator and denominator inside TLC's integers.            *)
(*                                                                         *)
(* Dictionaries keyed by page are functions over 1..N, N the number of     *)
(* pages, iterated in the order 1, 2, ..., N (Python iterates a dict in    *)
(* insertion order, and every dict of the program is built from the        *)
(* corpus's keys).                                                         *)
(***************************************************************************)
EXTENDS Integers, FiniteSets, Sequences, TLC

(* The largest sample count n passed to sample_pagerank. *)
MaxN == 3

VARIABLES
    corpus,             \* the corpus graph: page -> set of linked pages
    damping_factor,     \* the damping factor argument
    n,                  \* the sample count argument of sample_pagerank
    pc,                 \* which function runs and where it is
    page,               \* transition_model's page argument; iterate_pagerank's `for page` position
    start_page,         \* sample_pagerank: the surfer's current page
    i,                  \* sample_pagerank: samples drawn so far
    current_state,      \* sample_pagerank: the last transition model computed
    page_rank,          \* the page_rank dict of the running engine
    previous_page_rank, \* iterate_pagerank: the snapshot of the running pass
    convergence,        \* iterate_pagerank: the loop flag
    result,             \* the mapping returned by the call
    exc                 \* the exception the call ended with, or "none"

vars == <<corpus, damping_factor, n, pc, page, start_page, i, current_state,
          page_rank, previous_page_rank, convergence, result, exc>>

----------------------------------------------------------------------------
(* Exact arithmetic standing for the program's float operators.  Each      *)
(* operator binds its operands with a quantifier, so that an operand is    *)
(* evaluated once however often the body mentions it.                      *)

Abs(x) == IF x < 0 THEN -x ELSE x

RECURSIVE GCD(_, _)
GCD(a, b) ==
    IF b = 0 THEN a
    ELSE CHOOSE g \in { GCD(y, x % y) : x \in {a}, y \in {b} } : TRUE

(* num/den in lowest terms, den # 0 *)
Rat(num, den) ==
    CHOOSE r \in { <<(s * a) \div g, (s * b) \div g>> :
                     a \in {num}, b \in {den},
                     g \in {GCD(Abs(num), Abs(den))},
                     s \in {IF den < 0 THEN -1 ELSE 1} } : TRUE

Zero == <<0, 1>>
One  == <<1, 1>>

RAdd(x, y) ==
    CHOOSE r \in { Rat(a[1] * b[2] + b[1] * a[2], a[2] * b[2]) :
                     a \in {x}, b \in {y} } : TRUE
RSub(x, y) ==
    CHOOSE r \in { Rat(a[1] * b[2] - b[1] * a[2], a[2] * b[2]) :
                     a \in {x}, b \in {y} } : TRUE
RMul(x, y) ==
    CHOOSE r \in { Rat(a[1] * b[1], a[2] * b[2]) : a \in {x}, b \in {y} } : TRUE
(* x / y, y # 0; the callers test for a zero divisor first and raise       *)
(* ZeroDivisionError                                                       *)
RDiv(x, y) ==
    CHOOSE r \in { Rat(a[1] * b[2], a[2] * b[1]) : a \in {x}, b \in {y} } : TRUE
RAbs(x) == CHOOSE r \in { <<Abs(a[1]), a[2]>> : a \in {x} } : TRUE
RLess(x, y) == \E a \in {x}, b \in {y} : a[1] * b[2] < b[1] * a[2]
RLeq(x, y)  == \E a \in {x}, b \in {y} : a[1] * b[2] <= b[1] * a[2]
OfInt(k) == <<k, 1>>

(* len(d) and sum(d.values()) of a dict d keyed 1..N *)
len(d) == Cardinality(DOMAIN d)

RECURSIVE SumUpTo(_, _)
SumUpTo(d, k) == IF k = 0 THEN Zero ELSE RAdd(SumUpTo(d, k - 1), d[k])

sum(d) == CHOOSE r \in { SumUpTo(f, len(f)) : f \in {d} } : TRUE

----------------------------------------------------------------------------
(* Inputs.                                                                 *)

(* The corpora crawl() can return with one to three pages: no page links   *)
(* to itself and every link target is a page of the corpus.                *)
Corpora ==
    UNION { { G \in [1..N -> SUBSET (1..N)] : \A p \in 1..N : p \notin G[p] }
            : N \in 1..3 }

(* Damping factors, the boundary values 0 and 1 included. *)
Dampings == { <<0, 1>>, <<1, 4>>, <<1, 2>>, <<1, 1>> }

(* iterate_pagerank's hard-coded threshold = 0.001 *)
threshold == <<1, 1000>>

NoDict == <<>>

----------------------------------------------------------------------------
(* transition_model(corpus, page, damping_factor)                          *)

links_probability(G, p, d) == RDiv(d, OfInt(Cardinality(G[p])))

damping_probability(G, d) == RDiv(RSub(One, d), OfInt(len(G)))

(* pd_dict with the random-jump term left out of the linked pages *)
pd_dict_LinkOnly(G, p, d) ==
    [q \in DOMAIN G |->
        IF q \in G[p]
        THEN links_probability(G, p, d)
        ELSE damping_probability(G, d)]

(* the dict after the update loop, before normalisation *)
pd_dict(G, p, d) ==
    [q \in DOMAIN G |->
        IF q \in G[p]
        THEN RAdd(links_probability(G, p, d), damping_probability(G, d))
        ELSE damping_probability(G, d)]

(* {key: value / total for key, value in d.items()}, total # 0 *)
Normalize(d) ==
    CHOOSE r \in { [q \in DOMAIN f |-> RDiv(f[q], total_probability)] :
                     f \in {d}, total_probability \in {sum(d)} } : TRUE

(* transition_model without the early return for a page with no links:     *)
(* such a page gets the random-jump term only.                             *)
transition_model_NoEarlyReturn(G, p, d) ==
    IF Cardinality(G[p]) = 0
    THEN [raised |-> FALSE,
          value  |-> [key \in DOMAIN G |-> damping_probability(G, d)]]
    ELSE CHOOSE r \in { [raised |-> sum(normalized) # One, value |-> normalized] :
                          normalized \in {Normalize(pd_dict(G, p, d))} } : TRUE

(* The outcome of a call: the returned dict, or raised = TRUE when the     *)
(* sum check fails.                                                        *)
transition_model(G, p, d) ==
    IF Cardinality(G[p]) = 0
    THEN [raised |-> FALSE,
          value  |-> [key \in DOMAIN G |-> RDiv(One, OfInt(len(G)))]]
    ELSE CHOOSE r \in { [raised |-> sum(normalized) # One, value |-> normalized] :
                          normalized \in {Normalize(pd_dict(G, p, d))} } : TRUE

----------------------------------------------------------------------------
(* iterate_pagerank helpers                                                *)

(* first_condition without the division by the number of pages *)
first_condition_Undivided(G, d) == RSub(One, d)

first_condition(G, d) == RDiv(RSub(One, d), OfInt(len(G)))

(* the inner loop `for p in corpus` over pages 1..k for the page q *)
RECURSIVE SecondLoop(_, _, _, _)
SecondLoop(G, prev, q, k) ==
    IF k = 0 THEN Zero
    ELSE IF q \in G[k]
         THEN RAdd(SecondLoop(G, prev, q, k - 1),
                   RDiv(prev[k], OfInt(Cardinality(G[k]))))
         ELSE SecondLoop(G, prev, q, k - 1)

(* NewRank reading the dict that is being overwritten (a sequential,       *)
(* Gauss-Seidel update)                                                    *)
NewRank_InPlace(G, d, q, prev, cur) ==
    RAdd(first_condition(G, d), RMul(d, SecondLoop(G, cur, q, len(G))))

(* The value assigned to page_rank[q]; prev is previous_page_rank and cur  *)
(* the page_rank dict being overwritten during the pass.                   *)
NewRank(G, d, q, prev, cur) ==
    RAdd(first_condition(G, d), RMul(d, SecondLoop(G, prev, q, len(G))))

(* count reset inside the loop, so that only the last page's change counts *)
count_LastPage(prev, cur) ==
    Cardinality({ q \in {len(cur)} : RLess(threshold, RAbs(RSub(prev[q], cur[q]))) })

(* the number of pages whose change exceeds the threshold *)
count(prev, cur) ==
    Cardinality({ q \in DOMAIN cur : RLess(threshold, RAbs(RSub(prev[q], cur[q]))) })

----------------------------------------------------------------------------
(* The state machine.  A run makes one call: transition_model,             *)
(* sample_pagerank or iterate_pagerank.                                    *)

Init ==
    /\ corpus \in Corpora
    /\ damping_factor \in Dampings
    /\ n \in 0..MaxN
    /\ pc = "start"
    /\ page = 0
    /\ start_page = 0
    /\ i = 0
    /\ current_state = NoDict
    /\ page_rank = NoDict
    /\ previous_page_rank = NoDict
    /\ convergence = FALSE
    /\ result = NoDict
    /\ exc = "none"

(* transition_model giving a page without links a link to every page by    *)
(* writing into the corpus                                                 *)
TransitionModelCall_WritesCorpus ==
    /\ pc = "start"
    /\ \E p \in DOMAIN corpus :
         \E tm \in {transition_model(corpus, p, damping_factor)} :
             /\ page' = p
             /\ corpus' = [corpus EXCEPT
                             ![p] = IF @ = {} THEN DOMAIN corpus ELSE @]
             /\ pc' = "tm_done" /\ exc' = exc /\ result' = tm.value
    /\ UNCHANGED <<damping_factor, n, start_page, i, current_state,
                   page_rank, previous_page_rank, convergence>>

(* A direct call transition_model(corpus, p, damping_factor). *)
TransitionModelCall ==
    /\ pc = "start"
    /\ \E p \in DOMAIN corpus :
         \E tm \in {transition_model(corpus, p, damping_factor)} :
             /\ page' = p
             /\ IF tm.raised
                THEN pc' = "tm_raised" /\ exc' = "Exception" /\ result' = result
                ELSE pc' = "tm_done" /\ exc' = exc /\ result' = tm.value
    /\ UNCHANGED <<corpus, damping_factor, n, start_page, i, current_state,
                   page_rank, previous_page_rank, convergence>>

(* SampleStart counting the first page as a sample *)
SampleStart_CountsFirst ==
    /\ pc = "start"
    /\ start_page' \in DOMAIN corpus
    /\ page_rank' = [key \in DOMAIN corpus |->
                       IF key = start_page' THEN OfInt(1) ELSE OfInt(0)]
    /\ i' = 0
    /\ pc' = "sample_loop"
    /\ UNCHANGED <<corpus, damping_factor, n, page, current_state,
                   previous_page_rank, convergence, result, exc>>

(* sample_pagerank: the random first page and the zeroed counters. *)
SampleStart ==
    /\ pc = "start"
    /\ start_page' \in DOMAIN corpus
    /\ page_rank' = [key \in DOMAIN corpus |-> OfInt(0)]
    /\ i' = 0
    /\ pc' = "sample_loop"
    /\ UNCHANGED <<corpus, damping_factor, n, page, current_state,
                   previous_page_rank, convergence, result, exc>>

(* SampleStep counting the page the surfer leaves instead of the page drawn *)
SampleStep_CountsOld ==
    /\ pc = "sample_loop"
    /\ i < n
    /\ \E tm \in {transition_model(corpus, start_page, damping_factor)} :
           /\ current_state' = tm.value
           /\ \E next_page \in { q \in DOMAIN corpus : RLess(Zero, tm.value[q]) } :
                 /\ start_page' = next_page
                 /\ page_rank' = [page_rank EXCEPT
                                    ![start_page] = RAdd(@, OfInt(1))]
           /\ i' = i + 1
           /\ UNCHANGED <<pc, exc>>
    /\ UNCHANGED <<corpus, damping_factor, n, page, previous_page_rank,
                   convergence, result>>

(* One iteration of `for i in range(n)`. *)
SampleStep ==
    /\ pc = "sample_loop"
    /\ i < n
    /\ \E tm \in {transition_model(corpus, start_page, damping_factor)} :
           IF tm.raised
           THEN /\ pc' = "sample_raised"
                /\ exc' = "Exception"
                /\ UNCHANGED <<start_page, i, current_state, page_rank>>
           ELSE /\ current_state' = tm.value
                /\ \E next_page \in { q \in DOMAIN corpus : RLess(Zero, tm.value[q]) } :
                     /\ start_page' = next_page
                     /\ page_rank' = [page_rank EXCEPT
                                        ![next_page] = RAdd(@, OfInt(1))]
                /\ i' = i + 1
                /\ UNCHANGED <<pc, exc>>
    /\ UNCHANGED <<corpus, damping_factor, n, page, previous_page_rank,
                   convergence, result>>

(* After the loop: divide by n, normalise, check the sum, return. *)
SampleReturn ==
    /\ pc = "sample_loop"
    /\ i = n
    /\ IF n = 0 /\ \E q \in DOMAIN page_rank : RLess(Zero, page_rank[q])
       THEN /\ pc' = "sample_raised"
            /\ exc' = "ZeroDivisionError"
            /\ UNCHANGED <<page_rank, result>>
       ELSE \E divided \in { [q \in DOMAIN page_rank |->
                               IF RLess(Zero, page_rank[q])
                               THEN RDiv(page_rank[q], OfInt(n))
                               ELSE page_rank[q]] } :
              IF sum(divided) = Zero
              THEN /\ pc' = "sample_raised"
                   /\ exc' = "ZeroDivisionError"
                   /\ page_rank' = divided
                   /\ result' = result
              ELSE \E normalized \in { Normalize(divided) } :
                     IF sum(normalized) # One
                     THEN /\ pc' = "sample_raised"
                          /\ exc' = "Exception"
                          /\ page_rank' = normalized
                          /\ result' = result
                     ELSE /\ pc' = "sample_done"
                          /\ exc' = exc
                          /\ page_rank' = normalized
                          /\ result' = normalized
    /\ UNCHANGED <<corpus, damping_factor, n, page, start_page, i,
                   current_state, previous_page_rank, convergence>>

(* iterate_pagerank: the uniform start and convergence = False. *)
IterateStart ==
    /\ pc = "start"
    /\ page_rank' = [key \in DOMAIN corpus |-> RDiv(One, OfInt(len(corpus)))]
    /\ convergence' = FALSE
    /\ pc' = "it_while"
    /\ UNCHANGED <<corpus, damping_factor, n, page, start_page, i,
                   current_state, previous_page_rank, result, exc>>

(* `while not convergence:` entered; the snapshot is taken. *)
IterateSnapshot ==
    /\ pc = "it_while"
    /\ ~convergence
    /\ previous_page_rank' = page_rank
    /\ page' = 1
    /\ pc' = "it_for"
    /\ UNCHANGED <<corpus, damping_factor, n, start_page, i, current_state,
                   page_rank, convergence, result, exc>>

(* One iteration of `for page in page_rank`. *)
IterateUpdate ==
    /\ pc = "it_for"
    /\ page <= len(corpus)
    /\ page_rank' = [page_rank EXCEPT
                       ![page] = NewRank(corpus, damping_factor, page,
                                         previous_page_rank, page_rank)]
    /\ page' = page + 1
    /\ UNCHANGED <<corpus, damping_factor, n, pc, start_page, i,
                   current_state, previous_page_rank, convergence, result, exc>>

(* The convergence check that ends a pass. *)
IterateCheck ==
    /\ pc = "it_for"
    /\ page = len(corpus) + 1
    /\ convergence' = (count(previous_page_rank, page_rank) = 0)
    /\ pc' = "it_while"
    /\ UNCHANGED <<corpus, damping_factor, n, page, start_page, i,
                   current_state, page_rank, previous_page_rank, result, exc>>

(* After the loop: normalise, check the sum, return. *)
IterateReturn ==
    /\ pc = "it_while"
    /\ convergence
    /\ IF sum(page_rank) = Zero
       THEN /\ pc' = "it_raised"
            /\ exc' = "ZeroDivisionError"
            /\ UNCHANGED <<page_rank, result>>
       ELSE \E normalized \in { Normalize(page_rank) } :
              IF sum(normalized) # One
              THEN /\ pc' = "it_raised"
                   /\ exc' = "Exception"
                   /\ page_rank' = normalized
                   /\ result' = result
              ELSE /\ pc' = "it_done"
                   /\ exc' = exc
                   /\ page_rank' = normalized
                   /\ result' = normalized
    /\ UNCHANGED <<corpus, damping_factor, n, page, start_page, i,
                   current_state, previous_page_rank, convergence>>

Next ==
    \/ TransitionModelCall
    \/ SampleStart
    \/ SampleStep
    \/ SampleReturn
    \/ IterateStart
    \/ IterateSnapshot
    \/ IterateUpdate
    \/ IterateCheck
    \/ IterateReturn

Spec == Init /\ [][Next]_vars

(* The program is a single thread that runs whenever it can take a step. *)
FairSpec == Init /\ [][Next]_vars /\ WF_vars(Next)

----------------------------------------------------------------------------
(* Properties.                                                             *)

NumPages == len(corpus)

InUnitInterval(d) == RLess(Zero, d) /\ RLess(d, One)

Dangling(q) == corpus[q] = {}

(* a pass of iterate_pagerank has updated every page and awaits its check *)
PassComplete == pc = "it_for" /\ page = NumPages + 1

RECURSIVE InlinkSum(_, _)
(* the sum of prev[q] / outdegree(q) over the pages q of the set S *)
InlinkSum(S, prev) ==
    IF S = {} THEN Zero
    ELSE LET q == CHOOSE x \in S : TRUE
         IN  RAdd(RDiv(prev[q], OfInt(Cardinality(corpus[q]))),
                  InlinkSum(S \ {q}, prev))

(* the PageRank recurrence for page p over the snapshot prev *)
RecurrenceRank(p, prev) ==
    RAdd(RDiv(RSub(One, damping_factor), OfInt(NumPages)),
         RMul(damping_factor,
              InlinkSum({ q \in DOMAIN corpus : p \in corpus[q] }, prev)))

(* C1: during a pass of iterate_pagerank every page already updated holds  *)
(* (1-d)/|G| + d * (sum over the pages q that link to it of                *)
(* previous_page_rank[q] / outdegree(q)), computed from the snapshot taken *)
(* at the start of the pass, and every page not yet updated still holds    *)
(* its snapshot value; pages without links occur in no sum.                *)
C1_SimultaneousUpdate ==
    pc = "it_for" =>
        \A p \in DOMAIN corpus :
            page_rank[p] = IF p < page
                           THEN RecurrenceRank(p, previous_page_rank)
                           ELSE previous_page_rank[p]

(* a completed pass, not the first, in which page 1 received a new rank    *)
(* that a later page's sum reads from the snapshot, with a dangling page   *)
C1_Witness ==
    /\ PassComplete
    /\ \E p, q \in DOMAIN corpus :
         /\ p < q
         /\ p \in corpus[q]
         /\ q \in corpus[p]
         /\ page_rank[p] # previous_page_rank[p]
         /\ page_rank[q] # previous_page_rank[q]
    /\ \E q \in DOMAIN corpus : Dangling(q)

(* C2: for a page with links and 0 < d < 1, transition_model returns a     *)
(* dict over exactly the corpus's pages that gives a linked page           *)
(* (1-d)/|G| + d/|links(page)| and every other page (1-d)/|G|.             *)
C2_LinkedDistribution ==
    (pc \in {"tm_done", "tm_raised"} /\ ~Dangling(page)
        /\ InUnitInterval(damping_factor)) =>
        /\ pc = "tm_done"
        /\ DOMAIN result = DOMAIN corpus
        /\ \A q \in DOMAIN corpus :
             result[q] =
                IF q \in corpus[page]
                THEN RAdd(RDiv(RSub(One, damping_factor), OfInt(NumPages)),
                          RDiv(damping_factor, OfInt(Cardinality(corpus[page]))))
                ELSE RDiv(RSub(One, damping_factor), OfInt(NumPages))

(* a returned call for a page of a three-page corpus with one link *)
C2_Witness ==
    /\ pc = "tm_done"
    /\ NumPages = 3
    /\ Cardinality(corpus[page]) = 1
    /\ damping_factor = <<1, 4>>
    /\ \E q \in DOMAIN corpus : result[q] = <<1, 2>>

(* C3: for a page without links transition_model returns 1/|G| for every   *)
(* page, whatever the damping factor.                                      *)
C3_DanglingUniform ==
    (pc \in {"tm_done", "tm_raised"} /\ Dangling(page)) =>
        /\ pc = "tm_done"
        /\ DOMAIN result = DOMAIN corpus
        /\ \A q \in DOMAIN corpus : result[q] = <<1, NumPages>>

(* a returned call for a page without links, with a damping factor that    *)
(* would change the result if it were used                                 *)
C3_Witness ==
    /\ pc = "tm_done"
    /\ Dangling(page)
    /\ NumPages = 3
    /\ damping_factor = <<1, 2>>
    /\ \E q \in DOMAIN corpus : ~Dangling(q)

(* every page changed by at most 0.001 between the dicts prev and cur *)
AllWithinThreshold(prev, cur) ==
    \A q \in DOMAIN cur : RLeq(RAbs(RSub(cur[q], prev[q])), <<1, 1000>>)

(* C4: the check that ends a pass sets convergence exactly when every      *)
(* page's absolute change from the snapshot is at most 0.001 and leaves    *)
(* the ranks alone; with convergence unset the loop takes a new snapshot   *)
(* and runs another pass; with convergence set the ranks are those of a    *)
(* pass within the threshold, no further pass runs, and the dict returned  *)
(* is these ranks divided by their sum.                                    *)
C4_LeavesOnFirstConvergedPass ==
    [][ /\ PassComplete =>
              /\ pc' = "it_while"
              /\ page_rank' = page_rank
              /\ convergence' = AllWithinThreshold(previous_page_rank, page_rank)
        /\ (pc = "it_while" /\ ~convergence) =>
              /\ pc' = "it_for"
              /\ page' = 1
              /\ previous_page_rank' = page_rank
              /\ page_rank' = page_rank
        /\ (pc = "it_while" /\ convergence) =>
              /\ AllWithinThreshold(previous_page_rank, page_rank)
              /\ pc' \in {"it_done", "it_raised"}
              /\ pc' = "it_done" =>
                    \A q \in DOMAIN corpus :
                        result'[q] = RDiv(page_rank[q], sum(page_rank))
      ]_vars

(* a returned call whose last pass changed some page, by at most 0.001 *)
C4_Witness ==
    /\ pc = "it_done"
    /\ InUnitInterval(damping_factor)
    /\ \E q \in DOMAIN corpus : result[q] # <<1, NumPages>>
    /\ \E q \in DOMAIN corpus : ~Dangling(q)

(* C5: every call of iterate_pagerank ends, by returning or by raising. *)
C5_IterateEnds ==
    (pc = "it_while") ~> (pc \in {"it_done", "it_raised"})

(* C6: sample_pagerank with n = 0 ends with InvalidArgument, and no engine *)
(* returns a result or raises anything but InvalidArgument for d = 0 or    *)
(* d = 1.                                                                  *)
C6_InvalidArgumentRejected ==
    /\ (n = 0 /\ pc \in {"sample_done", "sample_raised"}) =>
          (pc = "sample_raised" /\ exc = "InvalidArgument")
    /\ (damping_factor \in {Zero, One}
          /\ pc \in {"sample_done", "sample_raised", "it_done", "it_raised"}) =>
          (pc \in {"sample_raised", "it_raised"} /\ exc = "InvalidArgument")

(* C7: the dict sample_pagerank returns has exactly the corpus's pages as  *)
(* keys, gives each page its visit count divided by n, and sums to 1.      *)
C7_SampleResult ==
    [][ (pc = "sample_loop" /\ pc' = "sample_done") =>
            /\ n > 0
            /\ DOMAIN result' = DOMAIN corpus
            /\ \A q \in DOMAIN corpus :
                 /\ page_rank[q][2] = 1
                 /\ result'[q] = Rat(page_rank[q][1], n)
            /\ sum(result') = One
      ]_vars

(* a returned call in which two pages were visited *)
C7_Witness ==
    /\ pc = "sample_done"
    /\ n >= 2
    /\ \E q \in DOMAIN corpus : result[q] \notin {Zero, One}

C9_CountersSumToIterations ==
    [][ /\ pc' = "sample_loop" => sum(page_rank') = OfInt(i')
        /\ (pc = "start" /\ pc' = "sample_loop") =>
              /\ i' = 0
              /\ \A q \in DOMAIN corpus : page_rank'[q] = Zero
        /\ (pc = "sample_loop" /\ pc' = "sample_loop") =>
              /\ i' = i + 1
              /\ i' <= n
              /\ RLess(Zero, transition_model(corpus, start_page,
                                              damping_factor).value[start_page'])
              /\ \A q \in DOMAIN corpus :
                   page_rank'[q] = IF q = start_page'
                                   THEN RAdd(page_rank[q], One)
                                   ELSE page_rank[q]
      ]_vars

(* all n > 1 samples drawn, the first page never drawn, with a damping     *)
(* factor that leaves some page at probability zero                        *)
C9_Witness ==
    /\ pc = "sample_loop"
    /\ i = n
    /\ n >= 2
    /\ damping_factor = One
    /\ \E q \in DOMAIN corpus : page_rank[q] = Zero
    /\ \E q \in DOMAIN corpus : page_rank[q] = OfInt(1)

(* C10: with 0 < d < 1, after every pass of iterate_pagerank each rank is  *)
(* at least (1-d)/|G| and the ranks sum to at most 1: to exactly 1 when no *)
(* page is dangling, to less than 1 when some page is; the sum divided by  *)
(* at the end is positive.                                                 *)
C10_RankBounds ==
    (InUnitInterval(damping_factor)
        /\ (PassComplete \/ (pc = "it_while" /\ convergence))) =>
        /\ \A q \in DOMAIN corpus :
             RLeq(RDiv(RSub(One, damping_factor), OfInt(NumPages)), page_rank[q])
        /\ RLeq(sum(page_rank), One)
        /\ (\A q \in DOMAIN corpus : ~Dangling(q)) => sum(page_rank) = One
        /\ (\E q \in DOMAIN corpus : Dangling(q)) => RLess(sum(page_rank), One)
        /\ RLess(Zero, sum(page_rank))

(* a converged loop over a corpus with a dangling page and a linked page *)
C10_Witness ==
    /\ pc = "it_while"
    /\ convergence
    /\ damping_factor = <<1, 2>>
    /\ NumPages = 3
    /\ \E q \in DOMAIN corpus : Dangling(q)
    /\ \E q \in DOMAIN corpus : page_rank[q] # previous_page_rank[q]

====
